---------------------------- MODULE Spec2Model ----------------------------
(***************************************************************************)
(* The useWebSocketAudio hook: call lifecycle, capture gating and the      *)
(* playback scheduler.  The call-lifecycle revision is                     *)
(* src/lib/useWebSocketAudio.ts lines 1-430; the muted-start revision is   *)
(* src/unnamed/part_002; the push-to-talk revision is                      *)
(* src/lib/useWebSocketAudio.ts lines 431-568, used by                     *)
(* src/app/dashboard/page.tsx.  The plant socket hook is                   *)
(* src/hooks/usePlantSocket.ts.                                            *)
(*                                                                         *)
(* One step of the model is one browser task: a handler runs to completion *)
(* or up to its next await.  React state is modelled by its latest value   *)
(* (the render that follows a state change is part of the step).           *)
(*                                                                         *)
(* Time is counted in ticks of one sample period of the playback format,   *)
(* so a buffer of n samples lasts n ticks; the audio clock and the timer   *)
(* clock are the same clock.                                               *)
(***************************************************************************)
EXTENDS Integers, Sequences, FiniteSets, Bags, TLC

\* ------------------------------------------------------------- bounds
MaxAcq == 2         \* getUserMedia promises pending at once
MaxCalls == 2       \* accepted startCalls are counted up to this many
MaxOrphans == 1     \* capture pipelines no longer referenced but still live
MaxNodes == 2        \* scheduled nodes not yet finished (lifecycle)
MaxTimers == 1      \* audio_end timers pending at once (lifecycle)
PlayClock == 3      \* ticks of the clock (playback)
PlayChunk == 2      \* bytes per audio message (playback)
PlayNodes == 2      \* scheduled nodes not yet finished (playback)
PlayTimers == 1     \* audio_end timers pending at once (playback)
DecodeChunk == 2    \* bytes per audio message (decoder)
DecodeNodes == 2    \* chunks scheduled and not stopped (decoder)
MaxBlock == 5       \* samples in a block given to the resampler
MutedClock == 3     \* ticks of the clock (greeting scenario)

\* ------------------------------------------------------------- constants
\* Math.max(now + 0.02, nextStartTimeRef.current): the lookahead margin,
\* in ticks of the model's clock.
Lookahead == 1
\* the same margin in the muted-start revision (now + 0.05)
LookaheadMuted == 2

NoSource == <<>>    \* activeSourceRef.current === null
NoResidue == <<>>   \* residueRef.current === null
NoSession == ""     \* startCall() without a sessionId
\* no downsampleBuffer call under way
NoBlock == [buffer |-> <<>>, inputSampleRate |-> 1, outputSampleRate |-> 1]

Revisions == {"lifecycle", "mutedStart"}

VARIABLES
    revision,           \* which revision of the hook runs; it never changes
    \* transport
    ws,                 \* readyState of wsRef.current: "null" when wsRef.current is null
    stale,              \* superseded sockets with handlers attached: state -> count
    isConnected,
    \* session
    isCallActive,
    greetingInProgress,
    greetingInProgressRef,
    isMuted,
    isThinking,
    isSpeaking,
    \* capture
    audioContextRef,    \* TRUE when an AudioContext has been created
    micPending,         \* getUserMedia promises not yet settled
    streamRef,          \* TRUE when streamRef.current holds a MediaStream
    trackEnabled,       \* enabled flag of the held stream's audio track
    processorRef,       \* TRUE when processorRef.current holds a ScriptProcessorNode
    orphans,            \* live stream+processor pairs that the refs no longer hold
    \* playback
    now,                \* the clock
    nextStartTimeRef,
    activeSourceRef,    \* the tracked node <<start, end>>, or NoSource
    playing,            \* bag of scheduled nodes <<start, end>> not stopped, not ended
    residueRef,
    timers,             \* deadlines of the pending audio_end timers, in creation order
    \* what the last step did
    op,                 \* the handler that ran
    out,                \* the messages it sent on the socket
    cb,                 \* the caller callbacks it invoked
    fx,                 \* the calls it made on the media graph and on setGreetingState
    decoded,            \* the bytes the last audio step turned into samples
    \* history
    calls,              \* startCalls accepted since the call was last ended
    interrupted,        \* an interrupt was processed and no tts_start/intro_start since
    rx,                 \* bytes received in audio messages since the last stop
    pcm,                \* bytes turned into samples since the last stop
    owed,               \* per pending timer: the playback cursor when its audio_end came
    paid,               \* the cursor owed by the timer the last step ran
    script,             \* messages of the greeting scenario received so far
    mutes,              \* what stood before each of the last consecutive toggleMute calls
    last,               \* the handler that ran before the last one
    given,              \* the sessionId the last step was called with, if it was startCall
    armed,              \* per pending timer: when it was set, and whether a stopCall came since
    \* the plant socket hook (usePlantSocket)
    plantWs,            \* readyState of its socket
    plantConnected,     \* its isConnected
    plantState,         \* its plantState: "null" or the last state received
    \* the resampler
    block,              \* the arguments of a downsampleBuffer call
    resampled,          \* what the call returned, empty before it returns
    \* the push-to-talk revision of the hook and the button of its page
    pttWs,              \* readyState of its wsRef.current, "null" when the ref is null
    pttConnected,       \* its isConnected
    isRecording,
    mediaRecorderRef,   \* state of mediaRecorderRef.current, "null" when the ref is null
    recPending,         \* getUserMedia promises of startRecording not yet settled
    recOrphans,         \* recorders still recording that the ref no longer holds
    pressed             \* the talk button is held down

transport == <<ws, stale, isConnected>>
session == <<isCallActive, greetingInProgress, greetingInProgressRef, isMuted>>
bot == <<isThinking, isSpeaking>>
capture == <<audioContextRef, micPending, streamRef, trackEnabled, processorRef, orphans>>
playback == <<nextStartTimeRef, activeSourceRef, playing, residueRef>>
history == <<calls, interrupted, rx, pcm, owed, paid, script, mutes, last, given,
             armed>>
plant == <<plantWs, plantConnected, plantState>>
dsp == <<block, resampled>>
ptt == <<pttWs, pttConnected, isRecording, mediaRecorderRef, recPending, recOrphans,
         pressed>>
vars == <<revision, transport, session, bot, capture, playback, now, timers, op, out, cb, fx,
          decoded, history, plant, dsp, ptt>>

SockStates == {"connecting", "open", "closing"}

Max(a, b) == IF a >= b THEN a ELSE b
Min(a, b) == IF a <= b THEN a ELSE b

\* what the last step did; a handler of the audio hook leaves the other hooks
\* as they are
Ran(o, sent, called, done) ==
    /\ op' = o
    /\ out' = sent
    /\ cb' = called
    /\ fx' = done
    /\ UNCHANGED <<revision, plant, dsp, ptt>>

\* the same for a handler that leaves the thinking and speaking flags alone
Did(o, sent, called, done) ==
    /\ Ran(o, sent, called, done)
    /\ UNCHANGED bot

Init ==
    /\ revision = "lifecycle"
    /\ ws = "null"
    /\ stale = [s \in SockStates |-> 0]
    /\ isConnected = FALSE
    /\ isCallActive = FALSE
    /\ greetingInProgress = FALSE
    /\ greetingInProgressRef = FALSE
    /\ isMuted = FALSE
    /\ isThinking = FALSE
    /\ isSpeaking = FALSE
    /\ audioContextRef = FALSE
    /\ micPending = 0
    /\ streamRef = FALSE
    /\ trackEnabled = FALSE
    /\ processorRef = FALSE
    /\ orphans = 0
    /\ now = 0
    /\ nextStartTimeRef = 0
    /\ activeSourceRef = NoSource
    /\ playing = EmptyBag
    /\ residueRef = NoResidue
    /\ timers = <<>>
    /\ op = "init"
    /\ out = <<>>
    /\ cb = <<>>
    /\ fx = {}
    /\ decoded = <<>>
    /\ calls = 0
    /\ interrupted = FALSE
    /\ rx = <<>>
    /\ pcm = <<>>
    /\ owed = <<>>
    /\ paid = 0
    /\ script = 0
    /\ mutes = <<>>
    /\ last = "init"
    /\ given = NoSession
    /\ armed = <<>>
    /\ plantWs = "connecting"
    /\ plantConnected = FALSE
    /\ plantState = "null"
    /\ block = NoBlock
    /\ resampled = <<>>
    /\ pttWs = "null"
    /\ pttConnected = FALSE
    /\ isRecording = FALSE
    /\ mediaRecorderRef = "null"
    /\ recPending = 0
    /\ recOrphans = 0
    /\ pressed = FALSE


\* ------------------------------------------------------------- playback
\* the byte strings an audio message can carry, up to n bytes
Chunks(n, bytes) == UNION {[1..k -> bytes] : k \in 0..n}

\* residue handling of queueAudioChunk: the bytes decoded and the byte kept
Combined(c) == residueRef \o c
IsOdd(n) == n % 2 # 0
Body(c) ==
    IF IsOdd(Len(Combined(c)))
    THEN SubSeq(Combined(c), 1, Len(Combined(c)) - 1)
    ELSE Combined(c)
\* a residue that grows by the odd byte instead of being replaced by it
Residue_appends(c) ==
    IF IsOdd(Len(Combined(c)))
    THEN residueRef \o <<Combined(c)[Len(Combined(c))]>>
    ELSE NoResidue

Residue(c) ==
    IF IsOdd(Len(Combined(c)))
    THEN <<Combined(c)[Len(Combined(c))]>>
    ELSE NoResidue

\* gapless scheduling: the node a chunk is scheduled as
\* a start time that ignores the cursor
StartTime_ignoresCursor(margin) == now + margin

StartTime(margin) == Max(now + margin, nextStartTimeRef)
Node(c, margin) == <<StartTime(margin), StartTime(margin) + Len(Body(c)) \div 2>>

queueAudioChunk(c, margin) ==
    /\ audioContextRef' = TRUE
    /\ residueRef' = Residue(c)
    /\ decoded' = Body(c)
    /\ IF Body(c) = <<>>
       THEN UNCHANGED <<nextStartTimeRef, activeSourceRef, playing>>
       ELSE /\ playing' = playing (+) SetToBag({Node(c, margin)})
            /\ nextStartTimeRef' = Node(c, margin)[2]
            /\ activeSourceRef' = Node(c, margin)

\* activeSourceRef.current.stop() and disconnect(), when a source is tracked
SourceStop == IF activeSourceRef # NoSource THEN {"source.stop"} ELSE {}

\* stopPlayback without its reset of the cursor
stopPlayback_keepsCursor ==
    /\ UNCHANGED nextStartTimeRef
    /\ playing' = IF activeSourceRef = NoSource
                  THEN playing
                  ELSE playing (-) SetToBag({activeSourceRef})
    /\ activeSourceRef' = NoSource
    /\ UNCHANGED residueRef

stopPlayback ==
    /\ nextStartTimeRef' = 0
    /\ playing' = IF activeSourceRef = NoSource
                  THEN playing
                  ELSE playing (-) SetToBag({activeSourceRef})
    /\ activeSourceRef' = NoSource
    /\ UNCHANGED residueRef

setGreetingState(active) ==
    /\ greetingInProgress' = active
    /\ greetingInProgressRef' = active

\* the clock advances; nodes whose end has been reached have finished
Tick ==
    /\ now' = now + 1
    /\ playing' = [n \in {m \in DOMAIN playing : m[2] > now + 1} |-> playing[n]]
    /\ Did("tick", <<>>, <<>>, {})
    /\ decoded' = <<>>
    /\ UNCHANGED <<transport, session, capture, nextStartTimeRef, activeSourceRef,
                   residueRef, timers>>

\* ------------------------------------------------------------- server messages
\* a message is dispatched by the onmessage handler of any open socket
Receiving == ws = "open" \/ stale["open"] > 0

onmessage_intro_start ==
    /\ Receiving
    /\ setGreetingState(TRUE)
    /\ Did("intro_start", <<>>, <<>>, {"setGreetingState"})
    /\ decoded' = <<>>
    /\ UNCHANGED <<transport, isCallActive, isMuted, capture, playback, now, timers>>

onmessage_intro_stop ==
    /\ Receiving
    /\ setGreetingState(FALSE)
    /\ Did("intro_stop", <<>>, <<>>, {"setGreetingState"})
    /\ decoded' = <<>>
    /\ UNCHANGED <<transport, isCallActive, isMuted, capture, playback, now, timers>>

onmessage_tts_start ==
    /\ Receiving
    /\ stopPlayback
    /\ Did("tts_start", <<>>, <<"onTtsStart">>, SourceStop)
    /\ decoded' = <<>>
    /\ UNCHANGED <<transport, session, capture, now, timers>>

onmessage_audio(c, margin) ==
    /\ Receiving
    /\ IF c = <<>>
       THEN /\ decoded' = <<>>
            /\ UNCHANGED <<audioContextRef, playback>>
       ELSE queueAudioChunk(c, margin)
    /\ Did("audio", <<>>, <<>>, {})
    /\ UNCHANGED <<transport, session, micPending, streamRef, trackEnabled,
                   processorRef, orphans, now, timers>>

\* a failed decode that has already consumed the residue
onmessage_audio_malformed_losesResidue ==
    /\ Receiving
    /\ audioContextRef' = TRUE
    /\ residueRef' = NoResidue
    /\ decoded' = <<>>
    /\ Did("audio_malformed", <<>>, <<>>, {})
    /\ UNCHANGED <<transport, session, micPending, streamRef, trackEnabled,
                   processorRef, orphans, nextStartTimeRef, activeSourceRef, playing,
                   now, timers>>

\* an audio message whose data is not valid base64: queueAudioChunk creates the
\* AudioContext if there is none, atob throws and the catch block logs
onmessage_audio_malformed ==
    /\ Receiving
    /\ audioContextRef' = TRUE
    /\ decoded' = <<>>
    /\ Did("audio_malformed", <<>>, <<>>, {})
    /\ UNCHANGED <<transport, session, micPending, streamRef, trackEnabled,
                   processorRef, orphans, playback, now, timers>>

\* the deadline of a timer set with no delay
Deadline_noWait == now

\* remainingTimeMs, as the deadline of the timer on the model's clock
Deadline == now + Max(0, nextStartTimeRef - now)

onmessage_audio_end ==
    /\ Receiving
    /\ timers' = Append(timers, Deadline)
    /\ Did("audio_end", <<>>, <<>>, {})
    /\ decoded' = <<>>
    /\ UNCHANGED <<transport, session, capture, playback, now>>

\* the timer that setTimeout runs next: the earliest deadline, first set first
Due(i) ==
    /\ i \in 1..Len(timers)
    /\ timers[i] <= now
    /\ \A j \in 1..Len(timers) :
          timers[j] > timers[i] \/ (timers[j] = timers[i] /\ j >= i)

Remove(seq, i) == SubSeq(seq, 1, i - 1) \o SubSeq(seq, i + 1, Len(seq))

audio_end_timeout ==
    \E i \in 1..Len(timers) :
        /\ Due(i)
        /\ timers' = Remove(timers, i)
        /\ IF greetingInProgressRef
           THEN setGreetingState(FALSE)
           ELSE UNCHANGED <<greetingInProgress, greetingInProgressRef>>
        /\ Did("audio_end_timeout", <<>>, <<"onAudioEnd">>,
               IF greetingInProgressRef THEN {"setGreetingState"} ELSE {})
        /\ decoded' = <<>>
        /\ UNCHANGED <<transport, isCallActive, isMuted, capture, playback, now>>

\* an automatic unmute that enables the track and leaves the mute flag
onmessage_audio_end_muted_keepsFlag ==
    /\ Receiving
    /\ IF greetingInProgressRef
       THEN /\ setGreetingState(FALSE)
            /\ trackEnabled' = (streamRef \/ trackEnabled)
            /\ UNCHANGED isMuted
       ELSE UNCHANGED <<greetingInProgress, greetingInProgressRef, trackEnabled,
                        isMuted>>
    /\ Did("audio_end", <<>>, <<"onAudioEnd">>,
           IF greetingInProgressRef
           THEN {"setGreetingState"} \cup (IF streamRef THEN {"track.enable"} ELSE {})
           ELSE {})
    /\ decoded' = <<>>
    /\ UNCHANGED <<transport, isCallActive, audioContextRef, micPending, streamRef,
                   processorRef, orphans, playback, now, timers>>

\* audio_end in the muted-start revision: no timer, the greeting ends and the
\* held stream is unmuted at once
onmessage_audio_end_muted ==
    /\ Receiving
    /\ IF greetingInProgressRef
       THEN /\ setGreetingState(FALSE)
            /\ IF streamRef
               THEN trackEnabled' = TRUE /\ isMuted' = FALSE
               ELSE UNCHANGED <<trackEnabled, isMuted>>
       ELSE UNCHANGED <<greetingInProgress, greetingInProgressRef, trackEnabled,
                        isMuted>>
    /\ Did("audio_end", <<>>, <<"onAudioEnd">>,
           IF greetingInProgressRef
           THEN {"setGreetingState"} \cup (IF streamRef THEN {"track.enable"} ELSE {})
           ELSE {})
    /\ decoded' = <<>>
    /\ UNCHANGED <<transport, isCallActive, audioContextRef, micPending, streamRef,
                   processorRef, orphans, playback, now, timers>>

onmessage_tts_interrupted ==
    /\ Receiving
    /\ stopPlayback
    /\ Did("tts_interrupted", <<>>, <<"onTtsInterrupted">>, SourceStop)
    /\ decoded' = <<>>
    /\ UNCHANGED <<transport, session, capture, now, timers>>

onmessage_bot_thinking ==
    /\ Receiving
    /\ isThinking' = TRUE
    /\ Ran("bot_thinking", <<>>, <<"onThinking">>, {})
    /\ decoded' = <<>>
    /\ UNCHANGED <<transport, session, isSpeaking, capture, playback, now, timers>>

onmessage_bot_speaking ==
    /\ Receiving
    /\ isThinking' = FALSE
    /\ isSpeaking' = TRUE
    /\ Ran("bot_speaking", <<>>, <<"onThinking", "onSpeaking">>, {})
    /\ decoded' = <<>>
    /\ UNCHANGED <<transport, session, capture, playback, now, timers>>

onmessage_bot_stopped ==
    /\ Receiving
    /\ isSpeaking' = FALSE
    /\ Ran("bot_stopped", <<>>, <<"onSpeaking">>, {})
    /\ decoded' = <<>>
    /\ UNCHANGED <<transport, session, isThinking, capture, playback, now, timers>>

onmessage_user_activity ==
    /\ Receiving
    /\ isThinking' = FALSE
    /\ isSpeaking' = FALSE
    /\ stopPlayback
    /\ Ran("user_activity", <<>>, <<"onThinking", "onSpeaking">>, SourceStop)
    /\ decoded' = <<>>
    /\ UNCHANGED <<transport, session, capture, now, timers>>

\* the messages that no case of the switch handles: text that is not JSON
\* (JSON.parse throws), JSON null (reading message.type throws) and an object
\* whose type matches no case
UnhandledKinds == {"not_json", "null", "unknown_type"}

\* a dispatch that gives up the socket on a message it cannot handle
onmessage_unhandled_dropsSocket(kind) ==
    /\ Receiving
    /\ ws' = "closed"
    /\ Did("unhandled", <<>>, <<>>,
           IF kind = "unknown_type" THEN {} ELSE {"console.error"})
    /\ decoded' = <<>>
    /\ UNCHANGED <<stale, isConnected, session, capture, playback, now, timers>>

\* the catch block logs the exception; an unknown type falls out of the switch
onmessage_unhandled(kind) ==
    /\ Receiving
    /\ Did("unhandled", <<>>, <<>>,
           IF kind = "unknown_type" THEN {} ELSE {"console.error"})
    /\ decoded' = <<>>
    /\ UNCHANGED <<transport, session, capture, playback, now, timers>>

\* an error message that also closes the call
onmessage_error_endsCall(text) ==
    /\ Receiving
    /\ isCallActive' = FALSE
    /\ Did(IF text # "" THEN "error" ELSE "error_empty", <<>>,
           IF text # "" THEN <<"onError">> ELSE <<>>, {})
    /\ decoded' = <<>>
    /\ UNCHANGED <<transport, greetingInProgress, greetingInProgressRef, isMuted,
                   capture, playback, now, timers>>

\* a message of type error; text is its message field, "" when it has none
onmessage_error(text) ==
    /\ Receiving
    /\ Did(IF text # "" THEN "error" ELSE "error_empty", <<>>,
           IF text # "" THEN <<"onError">> ELSE <<>>, {})
    /\ decoded' = <<>>
    /\ UNCHANGED <<transport, session, capture, playback, now, timers>>

ErrorTexts == {"", "boom"}

\* ------------------------------------------------------------- transport
\* connect(): returns when wsRef.current is open, else wsRef.current becomes a
\* new socket; a socket it replaces while connecting keeps its handlers
connect ==
    /\ ws # "open"
    /\ ws' = "connecting"
    /\ stale' = IF ws = "connecting"
                THEN [stale EXCEPT !["connecting"] = @ + 1]
                ELSE stale
    /\ Did("connect", <<>>, <<>>, {})
    /\ decoded' = <<>>
    /\ UNCHANGED <<isConnected, session, capture, playback, now, timers>>

onopen ==
    /\ \/ /\ ws = "connecting"
          /\ ws' = "open"
          /\ UNCHANGED stale
       \/ /\ stale["connecting"] > 0
          /\ stale' = [stale EXCEPT !["connecting"] = @ - 1, !["open"] = @ + 1]
          /\ UNCHANGED ws
    /\ isConnected' = TRUE
    /\ Did("onopen", <<>>, <<>>, {})
    /\ decoded' = <<>>
    /\ UNCHANGED <<session, capture, playback, now, timers>>

\* a socket with handlers attached reaches CLOSED
Closes ==
    \/ /\ ws \in {"connecting", "open"}
       /\ ws' = "closed"
       /\ UNCHANGED stale
    \/ \E st \in SockStates :
          /\ stale[st] > 0
          /\ stale' = [stale EXCEPT ![st] = @ - 1]
          /\ UNCHANGED ws

onclose ==
    /\ Closes
    /\ isConnected' = FALSE
    /\ isCallActive' = FALSE
    /\ Did("onclose", <<>>, <<>>, {})
    /\ decoded' = <<>>
    /\ UNCHANGED <<greetingInProgress, greetingInProgressRef, isMuted, capture,
                   playback, now, timers>>

\* a failed connection fires error and then close in the same task
onerror ==
    /\ Closes
    /\ isConnected' = FALSE
    /\ isCallActive' = FALSE
    /\ Did("onerror", <<>>, <<"onError">>, {})
    /\ decoded' = <<>>
    /\ UNCHANGED <<greetingInProgress, greetingInProgressRef, isMuted, capture,
                   playback, now, timers>>

\* ------------------------------------------------------------- capture
\* the gate without its check of the track's enabled flag
Transmits_ignoresMute == ws = "open"

\* the gate of processor.onaudioprocess
Transmits ==
    /\ ws = "open"
    /\ ~(streamRef /\ ~trackEnabled)

\* the gate of the muted-start revision
TransmitsMuted ==
    /\ ws = "open"
    /\ ~greetingInProgressRef
    /\ ~(streamRef /\ ~trackEnabled)

\* a connected ScriptProcessorNode delivers a block
Capturing == processorRef \/ orphans > 0

onaudioprocess ==
    /\ Capturing
    /\ Did("onaudioprocess", IF Transmits THEN <<"frame">> ELSE <<>>, <<>>, {})
    /\ decoded' = <<>>
    /\ UNCHANGED <<transport, session, capture, playback, now, timers>>

onaudioprocess_muted ==
    /\ Capturing
    /\ Did("onaudioprocess", IF TransmitsMuted THEN <<"frame">> ELSE <<>>, <<>>, {})
    /\ decoded' = <<>>
    /\ UNCHANGED <<transport, session, capture, playback, now, timers>>

\* startMicrophone after getUserMedia resolved; a pair of stream and processor
\* still held by the refs stays live once the refs are overwritten
startMicrophone(startMuted) ==
    /\ micPending > 0
    /\ micPending' = micPending - 1
    /\ orphans' = IF streamRef /\ processorRef THEN orphans + 1 ELSE orphans
    /\ streamRef' = TRUE
    /\ trackEnabled' = ~startMuted
    /\ isMuted' = startMuted
    /\ processorRef' = TRUE
    /\ isCallActive' = TRUE
    /\ Did("startMicrophone", <<>>, <<>>, {})
    /\ decoded' = <<>>
    /\ UNCHANGED <<transport, greetingInProgress, greetingInProgressRef,
                   audioContextRef, playback, now, timers>>

\* startMicrophone after getUserMedia rejected (the catch block)
startMicrophone_catch ==
    /\ micPending > 0
    /\ micPending' = micPending - 1
    /\ isCallActive' = FALSE
    /\ Did("startMicrophone_catch", <<>>, <<"onError">>, {})
    /\ decoded' = <<>>
    /\ UNCHANGED <<transport, greetingInProgress, greetingInProgressRef, isMuted,
                   audioContextRef, streamRef, trackEnabled, processorRef, orphans,
                   playback, now, timers>>

\* a toggle that can only mute
toggleMute_onlyMutes ==
    /\ isMuted' = TRUE
    /\ trackEnabled' = IF streamRef THEN FALSE ELSE trackEnabled
    /\ Did("toggleMute", <<>>, <<>>, {})
    /\ decoded' = <<>>
    /\ UNCHANGED <<transport, isCallActive, greetingInProgress, greetingInProgressRef,
                   audioContextRef, micPending, streamRef, processorRef, orphans,
                   playback, now, timers>>

toggleMute ==
    /\ isMuted' = ~isMuted
    /\ trackEnabled' = IF streamRef THEN isMuted ELSE trackEnabled
    /\ Did("toggleMute", <<>>, <<>>, {})
    /\ decoded' = <<>>
    /\ UNCHANGED <<transport, isCallActive, greetingInProgress, greetingInProgressRef,
                   audioContextRef, micPending, streamRef, processorRef, orphans,
                   playback, now, timers>>

\* ------------------------------------------------------------- call lifecycle
\* stopCall without its reset of the greeting state
StopCallBody_keepsGreeting ==
    /\ streamRef' = FALSE
    /\ trackEnabled' = FALSE
    /\ processorRef' = FALSE
    /\ stopPlayback
    /\ isCallActive' = FALSE
    /\ UNCHANGED <<greetingInProgress, greetingInProgressRef>>
    /\ isMuted' = FALSE

\* a stopCall that flips the mute flag instead of clearing it
StopCallBody_flipsMute ==
    /\ streamRef' = FALSE
    /\ trackEnabled' = FALSE
    /\ processorRef' = FALSE
    /\ stopPlayback
    /\ isCallActive' = FALSE
    /\ setGreetingState(FALSE)
    /\ isMuted' = ~isMuted

\* the body of stopCall, apart from what it sends
StopCallBody ==
    /\ streamRef' = FALSE
    /\ trackEnabled' = FALSE
    /\ processorRef' = FALSE
    /\ stopPlayback
    /\ isCallActive' = FALSE
    /\ setGreetingState(FALSE)
    /\ isMuted' = FALSE

\* a stopCall that sends whatever the state of the socket
SessionEnd_unguarded == <<"session_end">>

\* the media calls of stopCall
StopCallEffects ==
    (IF streamRef THEN {"track.stop"} ELSE {})
        \cup (IF processorRef THEN {"processor.disconnect"} ELSE {})
        \cup SourceStop \cup {"setGreetingState"}

SessionEnd == IF ws = "open" THEN <<"session_end">> ELSE <<>>

stopCall ==
    /\ StopCallBody
    /\ Did("stopCall", SessionEnd, <<>>, StopCallEffects)
    /\ decoded' = <<>>
    /\ UNCHANGED <<transport, audioContextRef, micPending, orphans, now, timers>>

disconnect ==
    /\ StopCallBody
    /\ ws' = "null"
    /\ stale' = IF ws \in {"connecting", "open"}
                THEN [stale EXCEPT !["closing"] = @ + 1]
                ELSE stale
    /\ isConnected' = FALSE
    /\ Did("disconnect", SessionEnd, <<>>, StopCallEffects)
    /\ decoded' = <<>>
    /\ UNCHANGED <<audioContextRef, micPending, orphans, now, timers>>

\* the guard of startCall
Accepts == ~(isCallActive \/ greetingInProgress) /\ ws = "open"

\* JSON.stringify({ type: "session_config", sessionId: sessionId })
ConfigJson(sessionId) ==
    CASE sessionId = "abc" -> "{type:session_config,sessionId:abc}"
      [] sessionId = "xyz" -> "{type:session_config,sessionId:xyz}"

\* a startCall that sends the same configuration whatever its argument
SessionConfig_fixedId(sessionId) ==
    IF sessionId # NoSession THEN <<ConfigJson("abc")>> ELSE <<>>

SessionConfig(sessionId) ==
    IF sessionId # NoSession THEN <<ConfigJson(sessionId)>> ELSE <<>>

\* startCall up to the await of getUserMedia inside startMicrophone
startCall(sessionId) ==
    /\ IF Accepts
       THEN /\ setGreetingState(TRUE)
            /\ audioContextRef' = TRUE
            /\ micPending' = micPending + 1
            /\ Did("startCall", SessionConfig(sessionId), <<>>, {"setGreetingState"})
       ELSE /\ Did("startCall", <<>>, <<>>, {})
            /\ UNCHANGED <<greetingInProgress, greetingInProgressRef, audioContextRef,
                           micPending>>
    /\ decoded' = <<>>
    /\ UNCHANGED <<transport, isCallActive, isMuted, streamRef, trackEnabled,
                   processorRef, orphans, playback, now, timers>>

SessionIds == {"abc", "xyz", NoSession}

\* ------------------------------------------------------------- resampler
\* Samples are integers and a sample of the result is the pair <<accum, count>>
\* standing for accum / count, so that a mean is exact.
\* Math.round(p / q) for p >= 0 and q > 0: halves round up
Round(p, q) == (2 * p + q) \div (2 * q)

RECURSIVE Accum(_, _, _)
\* accum after the for loop has added buffer[i] for the 0-based indices lo..hi-1
Accum(buffer, lo, hi) ==
    IF lo >= hi THEN 0 ELSE buffer[lo + 1] + Accum(buffer, lo + 1, hi)

\* a loop that never moves offsetBuffer
RECURSIVE DownsampleLoop_restartsSpan(_, _, _, _, _, _)
DownsampleLoop_restartsSpan(buffer, inRate, outRate, newLength, offsetResult, offsetBuffer) ==
    IF offsetResult >= newLength THEN <<>>
    ELSE LET nextOffsetBuffer == Round((offsetResult + 1) * inRate, outRate)
             end == Min(nextOffsetBuffer, Len(buffer))
             count == IF end > 0 THEN end ELSE 0
             sample == IF count > 0 THEN <<Accum(buffer, 0, end), count>> ELSE <<0, 1>>
         IN  <<sample>> \o DownsampleLoop_restartsSpan(buffer, inRate, outRate, newLength,
                                                      offsetResult + 1, 0)

\* a loop that stores the sum of a span instead of its mean
RECURSIVE DownsampleLoop_storesSum(_, _, _, _, _, _)
DownsampleLoop_storesSum(buffer, inRate, outRate, newLength, offsetResult, offsetBuffer) ==
    IF offsetResult >= newLength THEN <<>>
    ELSE LET nextOffsetBuffer == Round((offsetResult + 1) * inRate, outRate)
             end == Min(nextOffsetBuffer, Len(buffer))
         IN  <<<<Accum(buffer, offsetBuffer, end), 1>>>>
                 \o DownsampleLoop_storesSum(buffer, inRate, outRate, newLength,
                                             offsetResult + 1, nextOffsetBuffer)

\* the while loop of downsampleBuffer: the samples result[offsetResult..]
RECURSIVE DownsampleLoop(_, _, _, _, _, _)
DownsampleLoop(buffer, inRate, outRate, newLength, offsetResult, offsetBuffer) ==
    IF offsetResult >= newLength THEN <<>>
    ELSE LET nextOffsetBuffer == Round((offsetResult + 1) * inRate, outRate)
             end == Min(nextOffsetBuffer, Len(buffer))
             count == IF end > offsetBuffer THEN end - offsetBuffer ELSE 0
             sample == IF count > 0
                       THEN <<Accum(buffer, offsetBuffer, end), count>>
                       ELSE <<0, 1>>
         IN  <<sample>> \o DownsampleLoop(buffer, inRate, outRate, newLength,
                                          offsetResult + 1, nextOffsetBuffer)

downsampleBuffer(buffer, inputSampleRate, outputSampleRate) ==
    IF outputSampleRate = inputSampleRate
    THEN [i \in 1..Len(buffer) |-> <<buffer[i], 1>>]
    ELSE DownsampleLoop(buffer, inputSampleRate, outputSampleRate,
                        Round(Len(buffer) * outputSampleRate, inputSampleRate), 0, 0)

\* a call of downsampleBuffer returns
downsample ==
    /\ op # "downsampleBuffer"
    /\ resampled' = downsampleBuffer(block.buffer, block.inputSampleRate,
                                     block.outputSampleRate)
    /\ op' = "downsampleBuffer"
    /\ UNCHANGED <<revision, transport, session, bot, capture, playback, now, timers,
                   out, cb, fx, decoded, history, plant, block, ptt>>

\* ------------------------------------------------------------- plant socket hook
\* usePlantSocket opens its socket when it mounts; the handlers below leave the
\* audio hook as it is
PlantDid(o, sent) ==
    /\ op' = o
    /\ out' = sent
    /\ cb' = <<>>
    /\ fx' = {}
    /\ decoded' = <<>>
    /\ UNCHANGED <<revision, transport, session, bot, capture, playback, now, timers,
                   dsp, ptt>>

plant_onopen ==
    /\ plantWs = "connecting"
    /\ plantWs' = "open"
    /\ plantConnected' = TRUE
    /\ PlantDid("plant_onopen", <<>>)
    /\ UNCHANGED plantState

\* a message that parses as JSON replaces plantState; one that does not is logged
plant_onmessage(valid) ==
    /\ plantWs = "open"
    /\ plantState' = IF valid THEN "state" ELSE plantState
    /\ PlantDid("plant_onmessage", <<>>)
    /\ UNCHANGED <<plantWs, plantConnected>>

plant_onclose ==
    /\ plantWs \in {"connecting", "open"}
    /\ plantWs' = "closed"
    /\ plantConnected' = FALSE
    /\ PlantDid("plant_onclose", <<>>)
    /\ UNCHANGED plantState

\* a sendAction that sends whatever the state of the socket
ActionSent == IF plantWs = "open" THEN <<"action">> ELSE <<>>

sendAction ==
    /\ PlantDid("sendAction", ActionSent)
    /\ UNCHANGED plant

\* ------------------------------------------------------------- push-to-talk hook
\* The push-to-talk revision (src/lib/useWebSocketAudio.ts 431-568) under the
\* page that holds its button (src/app/dashboard/page.tsx).  The handlers below
\* leave the call hook and the plant hook as they are.
PttDid(o, sent, called, done) ==
    /\ op' = o
    /\ out' = sent
    /\ cb' = called
    /\ fx' = done
    /\ decoded' = <<>>
    /\ UNCHANGED <<revision, transport, session, bot, capture, playback, now, timers,
                   history, plant, dsp>>

\* connect(): returns when the socket is open, else wsRef.current is a new socket
ptt_connect ==
    /\ pttWs # "open"
    /\ pttWs' = "connecting"
    /\ PttDid("ptt_connect", <<>>, <<>>, {})
    /\ UNCHANGED <<pttConnected, isRecording, mediaRecorderRef, recPending, recOrphans,
                   pressed>>

ptt_onopen ==
    /\ pttWs = "connecting"
    /\ pttWs' = "open"
    /\ pttConnected' = TRUE
    /\ PttDid("ptt_onopen", <<>>, <<>>, {})
    /\ UNCHANGED <<isRecording, mediaRecorderRef, recPending, recOrphans, pressed>>

\* the server or the network closes the socket held by wsRef
ptt_onclose ==
    /\ pttWs \in {"connecting", "open"}
    /\ pttWs' = "closed"
    /\ pttConnected' = FALSE
    /\ PttDid("ptt_onclose", <<>>, <<>>, {})
    /\ UNCHANGED <<isRecording, mediaRecorderRef, recPending, recOrphans, pressed>>

\* wsRef.current?.close(), when there is a socket to close
SocketClose == IF pttWs \in {"connecting", "open"} THEN {"ws.close"} ELSE {}

\* disconnect() called by the owner of the hook
ptt_disconnect ==
    /\ pttWs' = "null"
    /\ pttConnected' = FALSE
    /\ PttDid("ptt_disconnect", <<>>, <<>>, SocketClose)
    /\ UNCHANGED <<isRecording, mediaRecorderRef, recPending, recOrphans, pressed>>

\* sendAudio, called by ondataavailable of a recorder that is recording
ChunkSent == IF pttWs = "open" THEN <<"chunk">> ELSE <<>>

ondataavailable ==
    /\ mediaRecorderRef = "recording" \/ recOrphans > 0
    /\ PttDid("ondataavailable", ChunkSent, <<>>, {})
    /\ UNCHANGED ptt

\* handleStart of the page: the button goes down; startRecording up to its await
handleStart ==
    /\ pressed' = TRUE
    /\ recPending' = IF isRecording THEN recPending ELSE recPending + 1
    /\ PttDid("handleStart", <<>>, <<>>, {})
    /\ UNCHANGED <<pttWs, pttConnected, isRecording, mediaRecorderRef, recOrphans>>

\* startRecording after getUserMedia resolved.  When isRecording changes, the
\* render gives stopRecording a new identity and the effect that depends on it
\* runs the cleanup of the render before: that render's stopRecording, which
\* saw isRecording false and does nothing, and then disconnect().
startRecording ==
    /\ recPending > 0
    /\ recPending' = recPending - 1
    /\ recOrphans' = IF mediaRecorderRef = "recording" THEN recOrphans + 1 ELSE recOrphans
    /\ mediaRecorderRef' = "recording"
    /\ isRecording' = TRUE
    /\ IF ~isRecording
       THEN /\ pttWs' = "null"
            /\ pttConnected' = FALSE
            /\ PttDid("startRecording", <<>>, <<>>, {"recorder.start"} \cup SocketClose)
       ELSE /\ UNCHANGED <<pttWs, pttConnected>>
            /\ PttDid("startRecording", <<>>, <<>>, {"recorder.start"})
    /\ UNCHANGED pressed

\* startRecording after getUserMedia rejected
startRecording_catch ==
    /\ recPending > 0
    /\ recPending' = recPending - 1
    /\ PttDid("startRecording_catch", <<>>, <<"onError">>, {})
    /\ UNCHANGED <<pttWs, pttConnected, isRecording, mediaRecorderRef, recOrphans, pressed>>

\* handleStop of the page: the button goes up; stopRecording().  When it stops
\* the recorder, isRecording changes and the cleanup of the render before runs:
\* that render's stopRecording calls stop() on the recorder again, which throws
\* in some browsers and returns in others, and disconnect() runs if it returned.
handleStop(throws) ==
    /\ pressed' = FALSE
    /\ IF mediaRecorderRef # "null" /\ isRecording
       THEN /\ mediaRecorderRef' = "inactive"
            /\ isRecording' = FALSE
            /\ IF throws
               THEN /\ UNCHANGED <<pttWs, pttConnected>>
                    /\ PttDid("handleStop", <<>>, <<>>, {"recorder.stop", "tracks.stop"})
               ELSE /\ pttWs' = "null"
                    /\ pttConnected' = FALSE
                    /\ PttDid("handleStop", <<>>, <<>>,
                              {"recorder.stop", "tracks.stop"} \cup SocketClose)
       ELSE /\ UNCHANGED <<pttWs, pttConnected, isRecording, mediaRecorderRef>>
            /\ PttDid("handleStop", <<>>, <<>>, {})
    /\ UNCHANGED <<recPending, recOrphans>>

\* ------------------------------------------------------------- history

EndsCall == {"stopCall", "disconnect", "onclose", "onerror"}
StopsPlayback == {"tts_start", "tts_interrupted", "user_activity", "stopCall", "disconnect"}

\* calls: accepted startCalls since the call was last ended
CallHistory ==
    /\ calls' = IF op' = "startCall" /\ micPending' > micPending
                THEN Min(calls + 1, MaxCalls)
                ELSE IF op' \in EndsCall THEN 0 ELSE calls
    /\ given' = NoSession
    /\ UNCHANGED <<interrupted, rx, pcm, owed, paid, script, mutes, last, armed>>

\* given: the sessionId of this step, a call of startCall
StartHistory(sessionId) ==
    /\ calls' = IF micPending' > micPending THEN Min(calls + 1, MaxCalls) ELSE calls
    /\ given' = sessionId
    /\ UNCHANGED <<interrupted, rx, pcm, owed, paid, script, mutes, last, armed>>

\* interrupted: an interrupt was processed, and no tts_start, intro_start or
\* stopCall since;
\* owed: for each pending timer, the playback cursor at the moment its audio_end
\* was processed, the time until which the audio scheduled before it plays;
\* paid: the cursor owed by the timer that the last step ran
Fired == CHOOSE i \in 1..Len(timers) : Due(i)

TurnHistory ==
    /\ interrupted' = IF op' \in {"tts_interrupted", "user_activity"} THEN TRUE
                      ELSE IF op' \in {"tts_start", "intro_start", "stopCall"} THEN FALSE
                      ELSE interrupted
    /\ owed' = IF op' = "audio_end" THEN Append(owed, nextStartTimeRef)
               ELSE IF op' = "audio_end_timeout" THEN Remove(owed, Fired)
               ELSE owed
    /\ paid' = IF op' = "audio_end_timeout" THEN owed[Fired] ELSE 0
    /\ UNCHANGED <<calls, rx, pcm, script, mutes, last, given, armed>>

\* armed: for each pending timer, the clock when its audio_end was processed,
\* whether a call was under way then and whether stopCall has run since; calls
\* as in CallHistory
TimerHistory ==
    /\ armed' = IF op' = "audio_end"
                THEN Append(armed, [at |-> now, inCall |-> calls >= 1, ended |-> FALSE])
                ELSE IF op' = "audio_end_timeout" THEN Remove(armed, Fired)
                ELSE IF op' = "stopCall"
                THEN [i \in DOMAIN armed |-> [armed[i] EXCEPT !.ended = TRUE]]
                ELSE armed
    /\ calls' = IF op' = "startCall" /\ micPending' > micPending
                THEN Min(calls + 1, MaxCalls)
                ELSE IF op' \in EndsCall THEN 0 ELSE calls
    /\ UNCHANGED <<interrupted, rx, pcm, owed, paid, script, mutes, last, given>>

\* rx, pcm: the bytes received in audio messages and the bytes turned into
\* samples since playback was last stopped; c is the chunk of this step
StreamHistory(c) ==
    /\ rx' = IF op' \in StopsPlayback THEN <<>>
             ELSE IF op' = "audio" THEN rx \o c ELSE rx
    /\ pcm' = IF op' \in StopsPlayback THEN <<>>
              ELSE IF op' = "audio" THEN pcm \o decoded' ELSE pcm
    /\ UNCHANGED <<calls, interrupted, owed, paid, script, mutes, last, given, armed>>

\* ------------------------------------------------------------- specifications
\* The call-lifecycle revision driven by its caller, the transport and the
\* microphone.  The caller connects once per socket and ends a call with
\* stopCall; every audio message carries the one-sample chunk CallChunk, and
\* the clock stands still.
CallChunk == <<1, 2>>

Next ==
    \/ /\ ws # "connecting"
       /\ connect
       /\ CallHistory
    \/ /\ onopen
       /\ CallHistory
    \/ /\ onclose
       /\ CallHistory
    \/ /\ onerror
       /\ CallHistory
    \/ \E sessionId \in SessionIds :
          /\ (Accepts => micPending < MaxAcq)
          /\ startCall(sessionId)
          /\ StartHistory(sessionId)
    \/ /\ (streamRef /\ processorRef => orphans < MaxOrphans)
       /\ startMicrophone(FALSE)
       /\ CallHistory
    \/ /\ startMicrophone_catch
       /\ CallHistory
    \/ /\ onaudioprocess
       /\ CallHistory
    \/ /\ toggleMute
       /\ CallHistory
    \/ /\ stopCall
       /\ CallHistory
    \/ /\ onmessage_intro_start
       /\ CallHistory
    \/ /\ onmessage_intro_stop
       /\ CallHistory
    \/ /\ onmessage_tts_start
       /\ CallHistory
    \/ /\ BagCardinality(playing) < MaxNodes
       /\ onmessage_audio(CallChunk, Lookahead)
       /\ CallHistory
    \/ /\ Len(timers) < MaxTimers
       /\ onmessage_audio_end
       /\ CallHistory
    \/ /\ audio_end_timeout
       /\ CallHistory
    \/ /\ onmessage_tts_interrupted
       /\ CallHistory
    \/ /\ onmessage_user_activity
       /\ CallHistory
    \/ \E text \in ErrorTexts :
          /\ onmessage_error(text)
          /\ CallHistory

Spec == Init /\ [][Next]_vars

\* A connected hook: the state after connect() and onopen.
InitPlayback ==
    /\ revision = "lifecycle"
    /\ ws = "open"
    /\ stale = [s \in SockStates |-> 0]
    /\ isConnected = TRUE
    /\ isCallActive = FALSE
    /\ greetingInProgress = FALSE
    /\ greetingInProgressRef = FALSE
    /\ isMuted = FALSE
    /\ isThinking = FALSE
    /\ isSpeaking = FALSE
    /\ audioContextRef = FALSE
    /\ micPending = 0
    /\ streamRef = FALSE
    /\ trackEnabled = FALSE
    /\ processorRef = FALSE
    /\ orphans = 0
    /\ now = 0
    /\ nextStartTimeRef = 0
    /\ activeSourceRef = NoSource
    /\ playing = EmptyBag
    /\ residueRef = NoResidue
    /\ timers = <<>>
    /\ op = "init"
    /\ out = <<>>
    /\ cb = <<>>
    /\ fx = {}
    /\ decoded = <<>>
    /\ calls = 0
    /\ interrupted = FALSE
    /\ rx = <<>>
    /\ pcm = <<>>
    /\ owed = <<>>
    /\ paid = 0
    /\ script = 0
    /\ mutes = <<>>
    /\ last = "init"
    /\ given = NoSession
    /\ armed = <<>>
    /\ plantWs = "connecting"
    /\ plantConnected = FALSE
    /\ plantState = "null"
    /\ block = NoBlock
    /\ resampled = <<>>
    /\ pttWs = "null"
    /\ pttConnected = FALSE
    /\ isRecording = FALSE
    /\ mediaRecorderRef = "null"
    /\ recPending = 0
    /\ recOrphans = 0
    /\ pressed = FALSE

\* The playback scheduler of the call-lifecycle revision against the clock: the
\* server's messages in any order, chunks of every length up to PlayChunk.
NextPlayback ==
    \/ /\ stopCall
       /\ TurnHistory
    \/ /\ onmessage_intro_start
       /\ TurnHistory
    \/ /\ onmessage_intro_stop
       /\ TurnHistory
    \/ /\ onmessage_tts_start
       /\ TurnHistory
    \/ \E c \in Chunks(PlayChunk, {1}) :
          /\ BagCardinality(playing) < PlayNodes
          /\ onmessage_audio(c, Lookahead)
          /\ TurnHistory
    \/ /\ Len(timers) < PlayTimers
       /\ onmessage_audio_end
       /\ TurnHistory
    \/ /\ audio_end_timeout
       /\ TurnHistory
    \/ /\ onmessage_tts_interrupted
       /\ TurnHistory
    \/ /\ onmessage_user_activity
       /\ TurnHistory
    \/ /\ now < PlayClock
       /\ Tick
       /\ TurnHistory

SpecPlayback == InitPlayback /\ [][NextPlayback]_vars

\* The greeting timer across calls: the caller starts and stops calls on a
\* connected hook while the server sends audio and audio_end, getUserMedia
\* resolves and the clock runs.
NextGreetingTimer ==
    \/ /\ (Accepts => micPending < MaxAcq)
       /\ startCall("abc")
       /\ TimerHistory
    \/ /\ (streamRef /\ processorRef => orphans < MaxOrphans)
       /\ startMicrophone(FALSE)
       /\ TimerHistory
    \/ /\ stopCall
       /\ TimerHistory
    \/ /\ BagCardinality(playing) < PlayNodes
       /\ onmessage_audio(CallChunk, Lookahead)
       /\ TimerHistory
    \/ /\ Len(timers) < PlayTimers
       /\ onmessage_audio_end
       /\ TimerHistory
    \/ /\ audio_end_timeout
       /\ TimerHistory
    \/ /\ now < PlayClock
       /\ Tick
       /\ TimerHistory

SpecGreetingTimer == InitPlayback /\ [][NextGreetingTimer]_vars

\* The decoder of the playback scheduler: chunks of every length and content up
\* to the bounds and chunks that are not valid base64, interleaved with the
\* events that stop playback; the clock stands still.
\* two byte values tell a byte from its neighbours
ByteValues == {1, 2}

NextDecode ==
    \/ \E c \in Chunks(DecodeChunk, ByteValues) :
          /\ BagCardinality(playing) < DecodeNodes
          /\ onmessage_audio(c, Lookahead)
          /\ StreamHistory(c)
    \/ /\ onmessage_tts_start
       /\ StreamHistory(<<>>)
    \/ /\ onmessage_tts_interrupted
       /\ StreamHistory(<<>>)
    \/ /\ onmessage_user_activity
       /\ StreamHistory(<<>>)
    \/ /\ stopCall
       /\ StreamHistory(<<>>)
    \/ /\ onmessage_audio_malformed
       /\ StreamHistory(<<>>)

SpecDecode == InitPlayback /\ [][NextDecode]_vars

\* The greeting scenario on the muted-start revision: the caller starts a call
\* on a connected hook and the server answers with three chunks of two samples
\* and audio_end; getUserMedia resolves at any point, the processor delivers
\* blocks and the clock runs.
\* the muted-start revision, connected
InitMutedScenario ==
    /\ revision = "mutedStart"
    /\ ws = "open"
    /\ stale = [s \in SockStates |-> 0]
    /\ isConnected = TRUE
    /\ isCallActive = FALSE
    /\ greetingInProgress = FALSE
    /\ greetingInProgressRef = FALSE
    /\ isMuted = FALSE
    /\ isThinking = FALSE
    /\ isSpeaking = FALSE
    /\ audioContextRef = FALSE
    /\ micPending = 0
    /\ streamRef = FALSE
    /\ trackEnabled = FALSE
    /\ processorRef = FALSE
    /\ orphans = 0
    /\ now = 0
    /\ nextStartTimeRef = 0
    /\ activeSourceRef = NoSource
    /\ playing = EmptyBag
    /\ residueRef = NoResidue
    /\ timers = <<>>
    /\ op = "init"
    /\ out = <<>>
    /\ cb = <<>>
    /\ fx = {}
    /\ decoded = <<>>
    /\ calls = 0
    /\ interrupted = FALSE
    /\ rx = <<>>
    /\ pcm = <<>>
    /\ owed = <<>>
    /\ paid = 0
    /\ script = 0
    /\ mutes = <<>>
    /\ last = "init"
    /\ given = NoSession
    /\ armed = <<>>
    /\ plantWs = "connecting"
    /\ plantConnected = FALSE
    /\ plantState = "null"
    /\ block = NoBlock
    /\ resampled = <<>>
    /\ pttWs = "null"
    /\ pttConnected = FALSE
    /\ isRecording = FALSE
    /\ mediaRecorderRef = "null"
    /\ recPending = 0
    /\ recOrphans = 0
    /\ pressed = FALSE

Scenario == <<"startCall", "audio", "audio", "audio", "audio_end">>
ScenarioChunk == <<1, 2, 1, 2>>
Upcoming == IF script < Len(Scenario) THEN Scenario[script + 1] ELSE "none"

\* script: the steps of Scenario taken so far
ScenarioHistory ==
    /\ script' = IF op' \in {"startCall", "audio", "audio_end"}
                 THEN script + 1
                 ELSE script
    /\ UNCHANGED <<calls, interrupted, rx, pcm, owed, paid, mutes, last, given, armed>>

NextMutedScenario ==
    \/ /\ Upcoming = "startCall"
       /\ startCall("abc")
       /\ ScenarioHistory
    \/ /\ Upcoming = "audio"
       /\ onmessage_audio(ScenarioChunk, LookaheadMuted)
       /\ ScenarioHistory
    \/ /\ Upcoming = "audio_end"
       /\ onmessage_audio_end_muted
       /\ ScenarioHistory
    \/ /\ startMicrophone(TRUE)
       /\ ScenarioHistory
    \/ /\ onaudioprocess_muted
       /\ ScenarioHistory
    \/ /\ now < MutedClock
       /\ Tick
       /\ ScenarioHistory

SpecMutedScenario == InitMutedScenario /\ [][NextMutedScenario]_vars

\* The caller's controls during the call lifecycle: the caller connects, starts
\* and stops calls and toggles mute at any point; the socket may close, and the
\* server may send audio.
\* mutes: for each of the last toggleMute calls made in succession (two at most),
\* the mute flag, the track's enabled flag, the gate of the capture callback and
\* the call-active flag as they stood before the call;
\* last: the handler that ran before the last one
Snapshot ==
    [muted |-> isMuted, enabled |-> trackEnabled, sends |-> Transmits,
     active |-> isCallActive]

MuteHistory ==
    /\ mutes' = IF op' # "toggleMute" THEN <<>>
                ELSE IF Len(mutes) < 2 THEN Append(mutes, Snapshot)
                ELSE <<mutes[2], Snapshot>>
    /\ last' = op
    /\ UNCHANGED <<calls, interrupted, rx, pcm, owed, paid, script, given, armed>>

NextMute ==
    \/ /\ ws # "connecting"
       /\ connect
       /\ MuteHistory
    \/ /\ onopen
       /\ MuteHistory
    \/ /\ onclose
       /\ MuteHistory
    \/ \E sessionId \in SessionIds :
          /\ (Accepts => micPending < MaxAcq)
          /\ startCall(sessionId)
          /\ MuteHistory
    \/ /\ (streamRef /\ processorRef => orphans < MaxOrphans)
       /\ startMicrophone(FALSE)
       /\ MuteHistory
    \/ /\ startMicrophone_catch
       /\ MuteHistory
    \/ /\ onaudioprocess
       /\ MuteHistory
    \/ /\ toggleMute
       /\ MuteHistory
    \/ /\ stopCall
       /\ MuteHistory
    \/ /\ onmessage_intro_stop
       /\ MuteHistory
    \/ /\ BagCardinality(playing) < MaxNodes
       /\ onmessage_audio(CallChunk, Lookahead)
       /\ MuteHistory

SpecMute == Init /\ [][NextMute]_vars

\* The mute flag in either revision: the revision is chosen when the hook is
\* constructed; startCall starts the microphone unmuted in the call-lifecycle
\* revision and muted in the muted-start revision, and audio_end sets a timer in
\* the first and unmutes at once in the second.  connect, startCall, toggleMute
\* and stopCall read the same in both.
InitRevisions ==
    /\ revision \in Revisions
    /\ ws = "null"
    /\ stale = [s \in SockStates |-> 0]
    /\ isConnected = FALSE
    /\ isCallActive = FALSE
    /\ greetingInProgress = FALSE
    /\ greetingInProgressRef = FALSE
    /\ isMuted = FALSE
    /\ isThinking = FALSE
    /\ isSpeaking = FALSE
    /\ audioContextRef = FALSE
    /\ micPending = 0
    /\ streamRef = FALSE
    /\ trackEnabled = FALSE
    /\ processorRef = FALSE
    /\ orphans = 0
    /\ now = 0
    /\ nextStartTimeRef = 0
    /\ activeSourceRef = NoSource
    /\ playing = EmptyBag
    /\ residueRef = NoResidue
    /\ timers = <<>>
    /\ op = "init"
    /\ out = <<>>
    /\ cb = <<>>
    /\ fx = {}
    /\ decoded = <<>>
    /\ calls = 0
    /\ interrupted = FALSE
    /\ rx = <<>>
    /\ pcm = <<>>
    /\ owed = <<>>
    /\ paid = 0
    /\ script = 0
    /\ mutes = <<>>
    /\ last = "init"
    /\ given = NoSession
    /\ armed = <<>>
    /\ plantWs = "connecting"
    /\ plantConnected = FALSE
    /\ plantState = "null"
    /\ block = NoBlock
    /\ resampled = <<>>
    /\ pttWs = "null"
    /\ pttConnected = FALSE
    /\ isRecording = FALSE
    /\ mediaRecorderRef = "null"
    /\ recPending = 0
    /\ recOrphans = 0
    /\ pressed = FALSE

NextMuteRevisions ==
    \/ /\ ws # "connecting"
       /\ connect
       /\ MuteHistory
    \/ /\ onopen
       /\ MuteHistory
    \/ /\ onclose
       /\ MuteHistory
    \/ \E sessionId \in SessionIds :
          /\ (Accepts => micPending < MaxAcq)
          /\ startCall(sessionId)
          /\ MuteHistory
    \/ /\ (streamRef /\ processorRef => orphans < MaxOrphans)
       /\ startMicrophone(revision = "mutedStart")
       /\ MuteHistory
    \/ /\ startMicrophone_catch
       /\ MuteHistory
    \/ /\ toggleMute
       /\ MuteHistory
    \/ /\ stopCall
       /\ MuteHistory
    \/ /\ revision = "lifecycle"
       /\ Len(timers) < MaxTimers
       /\ onmessage_audio_end
       /\ MuteHistory
    \/ /\ revision = "lifecycle"
       /\ audio_end_timeout
       /\ MuteHistory
    \/ /\ revision = "mutedStart"
       /\ onmessage_audio_end_muted
       /\ MuteHistory

SpecMuteRevisions == InitRevisions /\ [][NextMuteRevisions]_vars

\* The dispatch of server messages on a connected hook: messages of the types
\* that change state and messages that no case handles, in any order, with
\* chunks of one byte and of one sample; the clock stands still.
\* last: the handler that ran before the last one
DispatchHistory ==
    /\ last' = op
    /\ UNCHANGED <<calls, interrupted, rx, pcm, owed, paid, script, mutes, given, armed>>

NextDispatch ==
    \/ /\ onmessage_intro_start
       /\ DispatchHistory
    \/ /\ onmessage_intro_stop
       /\ DispatchHistory
    \/ /\ onmessage_tts_start
       /\ DispatchHistory
    \/ \E c \in {<<1>>, CallChunk} :
          /\ BagCardinality(playing) < MaxNodes
          /\ onmessage_audio(c, Lookahead)
          /\ DispatchHistory
    \/ /\ onmessage_bot_thinking
       /\ DispatchHistory
    \/ /\ onmessage_bot_speaking
       /\ DispatchHistory
    \/ /\ onmessage_bot_stopped
       /\ DispatchHistory
    \/ /\ onmessage_user_activity
       /\ DispatchHistory
    \/ \E text \in ErrorTexts :
          /\ onmessage_error(text)
          /\ DispatchHistory
    \/ \E kind \in UnhandledKinds :
          /\ onmessage_unhandled(kind)
          /\ DispatchHistory
    \/ /\ (Accepts => micPending < MaxAcq)
       /\ startCall("abc")
       /\ DispatchHistory
    \/ /\ (streamRef /\ processorRef => orphans < MaxOrphans)
       /\ startMicrophone(FALSE)
       /\ DispatchHistory
    \/ /\ toggleMute
       /\ DispatchHistory

SpecDispatch == InitPlayback /\ [][NextDispatch]_vars

\* Both hooks and everything that sends on their sockets: the audio hook's
\* startCall, stopCall and capture callback while its socket connects, opens
\* and closes, and the plant hook's sendAction while its socket does the same.
SendHistory == UNCHANGED history

NextSend ==
    \/ /\ ws # "connecting"
       /\ connect
       /\ SendHistory
    \/ /\ onopen
       /\ SendHistory
    \/ /\ onclose
       /\ SendHistory
    \/ \E sessionId \in SessionIds :
          /\ (Accepts => micPending < MaxAcq)
          /\ startCall(sessionId)
          /\ SendHistory
    \/ /\ (streamRef /\ processorRef => orphans < MaxOrphans)
       /\ startMicrophone(FALSE)
       /\ SendHistory
    \/ /\ onaudioprocess
       /\ SendHistory
    \/ /\ toggleMute
       /\ SendHistory
    \/ /\ stopCall
       /\ SendHistory
    \/ /\ plant_onopen
       /\ SendHistory
    \/ \E valid \in BOOLEAN :
          /\ plant_onmessage(valid)
          /\ SendHistory
    \/ /\ plant_onclose
       /\ SendHistory
    \/ /\ sendAction
       /\ SendHistory

SpecSend == Init /\ [][NextSend]_vars

\* The push-to-talk revision under its page: the page connects, the button is
\* pressed and released at any point, getUserMedia settles, recorders deliver
\* chunks and the server may close the socket.
NextPushToTalk ==
    \/ /\ pttWs # "connecting"
       /\ ptt_connect
    \/ ptt_onopen
    \/ ptt_onclose
    \/ ptt_disconnect
    \/ ondataavailable
    \/ /\ (~isRecording => recPending < MaxAcq)
       /\ handleStart
    \/ /\ (mediaRecorderRef = "recording" => recOrphans < MaxOrphans)
       /\ startRecording
    \/ startRecording_catch
    \/ \E throws \in BOOLEAN : handleStop(throws)

SpecPushToTalk == Init /\ [][NextPushToTalk]_vars

\* The resampler on its own: one call of downsampleBuffer on every block of up
\* to MaxBlock samples and every pair of rates; a rate is a multiple of a unit,
\* so that the ratios 1/3, 1/2, 2/3, 1, 3/2, 2 and 3 occur.
Rates == {1, 2, 3}
SampleValues == {1, 3}
Blocks ==
    [buffer : UNION {[1..n -> SampleValues] : n \in 0..MaxBlock},
     inputSampleRate : Rates,
     outputSampleRate : Rates]

InitResample ==
    /\ revision = "lifecycle"
    /\ ws = "null"
    /\ stale = [s \in SockStates |-> 0]
    /\ isConnected = FALSE
    /\ isCallActive = FALSE
    /\ greetingInProgress = FALSE
    /\ greetingInProgressRef = FALSE
    /\ isMuted = FALSE
    /\ isThinking = FALSE
    /\ isSpeaking = FALSE
    /\ audioContextRef = FALSE
    /\ micPending = 0
    /\ streamRef = FALSE
    /\ trackEnabled = FALSE
    /\ processorRef = FALSE
    /\ orphans = 0
    /\ now = 0
    /\ nextStartTimeRef = 0
    /\ activeSourceRef = NoSource
    /\ playing = EmptyBag
    /\ residueRef = NoResidue
    /\ timers = <<>>
    /\ op = "init"
    /\ out = <<>>
    /\ cb = <<>>
    /\ fx = {}
    /\ decoded = <<>>
    /\ calls = 0
    /\ interrupted = FALSE
    /\ rx = <<>>
    /\ pcm = <<>>
    /\ owed = <<>>
    /\ paid = 0
    /\ script = 0
    /\ mutes = <<>>
    /\ last = "init"
    /\ given = NoSession
    /\ armed = <<>>
    /\ plantWs = "connecting"
    /\ plantConnected = FALSE
    /\ plantState = "null"
    /\ block \in Blocks
    /\ resampled = <<>>
    /\ pttWs = "null"
    /\ pttConnected = FALSE
    /\ isRecording = FALSE
    /\ mediaRecorderRef = "null"
    /\ recPending = 0
    /\ recOrphans = 0
    /\ pressed = FALSE

NextResample == downsample

SpecResample == InitResample /\ [][NextResample]_vars

\* ------------------------------------------------------------- properties
Idle == ~isCallActive /\ ~greetingInProgress
FrameSent == op = "onaudioprocess" /\ out = <<"frame">>

C4_StopCallLeavesIdle ==
    op = "stopCall" =>
        /\ ~isCallActive
        /\ ~greetingInProgress
        /\ ~greetingInProgressRef
        /\ ~isMuted
        /\ ~streamRef
        /\ ~processorRef
        /\ nextStartTimeRef = 0
        /\ activeSourceRef = NoSource
        /\ out = (IF ws = "open" THEN <<"session_end">> ELSE <<>>)

\* stopCall ends a call that held a stream, a processor and a playback handle
C4_StopCallTearsDown ==
    /\ op = "stopCall"
    /\ out = <<"session_end">>
    /\ fx = {"track.stop", "processor.disconnect", "source.stop", "setGreetingState"}
    /\ Idle

\* C5: between an accepted startCall and the end of the call no further startCall
\* is accepted, so at most one startCall has been accepted in any call.
C5_OneStartCallPerCall == calls <= 1

\* C6: after the socket closes or reports an error the session is Idle, no stream
\* or processor is held and playback is stopped.
C6_CloseTearsDown ==
    op \in {"onclose", "onerror"} =>
        /\ Idle
        /\ ~streamRef
        /\ ~processorRef
        /\ activeSourceRef = NoSource
        /\ nextStartTimeRef = 0

\* C7: when microphone acquisition fails the error is reported once through
\* onError and the session is Idle as before the attempt.
C7_MicFailureLeavesIdle ==
    op = "startMicrophone_catch" => cb = <<"onError">> /\ Idle

\* C2: after a tts_interrupted or user_activity message, an audio message that
\* arrives before the next tts_start or intro_start is dropped: nothing of it is
\* decoded and no node is scheduled for it.
C2_LateAudioDropped ==
    (interrupted /\ op = "audio") => decoded = <<>> /\ activeSourceRef = NoSource

\* C3: once a step that stops playback has returned, no node scheduled before it
\* is still going to produce output.
C3_StopHaltsEveryNode == op \in StopsPlayback => playing = EmptyBag

\* C8: the timer set by audio_end runs, and clears the greeting, only once the
\* clock has reached the playback cursor that stood when audio_end was processed.
C8_GreetingOutlastsAudio == op = "audio_end_timeout" => paid <= now

\* the timer clears the greeting after waiting for audio that was still to play
C8_GreetingClearedAfterWait ==
    /\ op = "audio_end_timeout"
    /\ "setGreetingState" \in fx
    /\ ~greetingInProgress
    /\ paid > 1
    /\ paid <= now

\* C10: the bytes decoded since playback was last stopped are a prefix of the
\* bytes received since then: no byte saved before the stop is decoded after it.
C10_DecodeStartsAtOwnFirstByte ==
    /\ Len(pcm) <= Len(rx)
    /\ pcm = SubSeq(rx, 1, Len(pcm))

\* C9: once the greeting scenario has run to its end and getUserMedia has
\* resolved, the call is active, the greeting is over, the microphone is unmuted
\* and every block the processor delivers is sent.
C9_ScenarioEndsUnmuted ==
    (script = Len(Scenario) /\ micPending = 0) =>
        /\ isCallActive
        /\ ~greetingInProgress
        /\ ~isMuted
        /\ trackEnabled
        /\ (op = "onaudioprocess" => out = <<"frame">>)

\* C11: a step that handles tts_interrupted, tts_start, user_activity or stopCall
\* stops and disconnects the tracked source if there is one, and leaves the
\* handle empty and the cursor at 0; and a cursor that is not 0 becomes 0 only
\* in such a step.
C11_StopResetsHandleAndCursor ==
    [][/\ op' \in StopsPlayback =>
            /\ activeSourceRef' = NoSource
            /\ nextStartTimeRef' = 0
            /\ activeSourceRef # NoSource =>
                  /\ "source.stop" \in fx'
                  /\ playing' = playing (-) SetToBag({activeSourceRef})
       /\ (nextStartTimeRef # 0 /\ nextStartTimeRef' = 0) => op' \in StopsPlayback
      ]_vars

\* tts_interrupted stops the tracked source after the clock has moved
C11_InterruptedMidPlayback ==
    /\ op = "tts_interrupted"
    /\ "source.stop" \in fx
    /\ now > 0
    /\ activeSourceRef = NoSource
    /\ nextStartTimeRef = 0

\* C12: after each audio message, the bytes decoded into samples since playback
\* was last stopped are exactly the first floor(n/2) byte pairs of the n bytes
\* received since then, in arrival order, and at most one byte is held in the
\* residue.
C12_SamplesAreThePairsOfTheStream ==
    op = "audio" =>
        /\ pcm = SubSeq(rx, 1, 2 * (Len(rx) \div 2))
        /\ Len(residueRef) <= 1

\* C13: a chunk that is decoded is scheduled at max(now + margin, cursor) and the
\* cursor becomes its end; it starts no earlier than the clock and, when a chunk
\* was scheduled before it with no stop in between, no earlier than that chunk's
\* end, and exactly at that end when the end is at least now + margin; the
\* cursor decreases only in a step that stops playback.
C13_GaplessScheduling ==
    [][/\ (op' = "audio" /\ decoded' # <<>>) =>
            /\ activeSourceRef'[1] = Max(now + Lookahead, nextStartTimeRef)
            /\ activeSourceRef'[2] = activeSourceRef'[1] + Len(decoded') \div 2
            /\ nextStartTimeRef' = activeSourceRef'[2]
            /\ activeSourceRef'[1] >= now
            /\ activeSourceRef # NoSource =>
                  /\ activeSourceRef'[1] >= activeSourceRef[2]
                  /\ activeSourceRef[2] >= now + Lookahead =>
                        activeSourceRef'[1] = activeSourceRef[2]
       /\ nextStartTimeRef' < nextStartTimeRef => op' \in StopsPlayback
      ]_vars

\* a chunk is scheduled at the end of the chunk before it, later than now + margin
C13_ScheduledBackToBack ==
    /\ op = "audio"
    /\ decoded # <<>>
    /\ activeSourceRef # NoSource
    /\ activeSourceRef[1] > now + Lookahead
    /\ BagCardinality(playing) = 2

\* C14: after two toggleMute calls in succession that began while a call was
\* active, the mute flag, the enabled flag of the track and the decision of the
\* capture gate are what they were before the first of the two.
C14_ToggleTwiceRestores ==
    (Len(mutes) = 2 /\ mutes[1].active) =>
        /\ isMuted = mutes[1].muted
        /\ trackEnabled = mutes[1].enabled
        /\ Transmits = mutes[1].sends

\* a call that was sending is muted by the first toggle and sends again after
\* the second
C14_MutedThenSendingAgain ==
    /\ Len(mutes) = 2
    /\ mutes[1].active
    /\ mutes[1].sends
    /\ ~mutes[2].sends
    /\ mutes[2].muted
    /\ Transmits
    /\ ~isMuted

\* C15: toggleMute changes nothing but the mute flag and the enabled flag of the
\* track; it flips both when a call is active and changes neither when no call
\* is active.
C15_ToggleMuteOnlyInActive ==
    [][op' = "toggleMute" =>
          /\ UNCHANGED <<transport, isCallActive, greetingInProgress,
                         greetingInProgressRef, audioContextRef, micPending,
                         streamRef, processorRef, orphans, playback, now, timers>>
          /\ IF isCallActive
             THEN isMuted' = ~isMuted /\ trackEnabled' = ~trackEnabled
             ELSE UNCHANGED <<isMuted, trackEnabled>>
      ]_vars

\* C16 as stated: stopCall invoked while the session is Idle leaves the session
\* phase, the mute flag, the capture resources and the playback state as they
\* were.
C16_StopCallInIdleChangesNothing ==
    [][(op' = "stopCall" /\ Idle) =>
          UNCHANGED <<session, streamRef, trackEnabled, processorRef, playback>>
      ]_vars

\* C16 amended: a stopCall that follows a stopCall directly leaves the socket,
\* the session phase, the mute flag, the capture resources, the playback state
\* and the pending timers as they were.
C16_SecondStopCallChangesNothing ==
    [][(op = "stopCall" /\ op' = "stopCall") =>
          UNCHANGED <<transport, session, capture, playback, now, timers>>
      ]_vars

\* a stopCall directly after a stopCall, on an open socket, after audio was
\* received or a call was started
C16_StopCallTwice ==
    /\ op = "stopCall"
    /\ last = "stopCall"
    /\ out = <<"session_end">>
    /\ audioContextRef

\* C17: a message is sent only by startCall, stopCall or the capture callback
\* with the audio socket open, or by sendAction with the plant socket open; a
\* send attempted on a socket that is not open sends nothing, and no step that
\* opens a socket sends anything.
C17_SendsOnlyOnOpenSocket ==
    out # <<>> =>
        \/ op \in {"startCall", "stopCall", "onaudioprocess"} /\ ws = "open"
        \/ op = "sendAction" /\ plantWs = "open"

\* stopCall releases a held stream while the socket is reconnecting and sends
\* nothing
C17_StopCallWhileConnecting ==
    /\ op = "stopCall"
    /\ ws = "connecting"
    /\ "track.stop" \in fx
    /\ out = <<>>

\* C18: an audio message whose data fails to decode leaves the residue, the
\* cursor, the active handle, the scheduled nodes, the session and the socket as
\* they were, and nothing of it is decoded.
C18_MalformedChunkIsDropped ==
    [][op' = "audio_malformed" =>
          /\ UNCHANGED <<transport, session, playback, streamRef, processorRef,
                         timers>>
          /\ decoded' = <<>>
          /\ cb' = <<>>
      ]_vars

\* a malformed chunk arrives while a byte is held in the residue and a node is
\* tracked
C18_MalformedMidStream ==
    /\ op = "audio_malformed"
    /\ residueRef # NoResidue
    /\ activeSourceRef # NoSource
    /\ nextStartTimeRef > 0

\* C19: a message of type error that carries a message invokes onError once and
\* leaves the socket, the connection flag, the session phase, the mute flag,
\* the capture resources, the playback state and the timers as they were; one
\* that carries none does the same without the callback.
C19_ServerErrorOnlyReported ==
    [][op' \in {"error", "error_empty"} =>
          /\ UNCHANGED <<transport, session, capture, playback, now, timers>>
          /\ out' = <<>>
          /\ cb' = (IF op' = "error" THEN <<"onError">> ELSE <<>>)
      ]_vars

\* a server error arrives during an active call with audio scheduled
C19_ErrorDuringCall ==
    /\ op = "error"
    /\ cb = <<"onError">>
    /\ ws = "open"
    /\ isConnected
    /\ isCallActive
    /\ streamRef
    /\ activeSourceRef # NoSource

\* the span of input samples (0-based, end excluded) that output sample k
\* (1-based) averages: [round((k-1) r), round(k r)) clipped to the input
SpanLo(k) == Round((k - 1) * block.inputSampleRate, block.outputSampleRate)
SpanHi(k) ==
    Min(Round(k * block.inputSampleRate, block.outputSampleRate), Len(block.buffer))
LengthIsRounded ==
    Len(resampled) =
        Round(Len(block.buffer) * block.outputSampleRate, block.inputSampleRate)

\* C20 as stated: for every pair of rates the result has round(len * out / in)
\* samples and each is the mean of its span of input samples, which is not
\* empty.
C20_EveryOutputIsAMean ==
    op = "downsampleBuffer" =>
        /\ LengthIsRounded
        /\ \A k \in 1..Len(resampled) :
              /\ SpanHi(k) > SpanLo(k)
              /\ resampled[k] =
                    <<Accum(block.buffer, SpanLo(k), SpanHi(k)), SpanHi(k) - SpanLo(k)>>

\* C20 amended: the result has round(len * out / in) samples; each is the mean
\* of its span of input samples when the span is not empty and 0 when it is
\* empty; no span is empty when the input rate is at least the output rate.
C20_MeanOfSpanWhenDownsampling ==
    op = "downsampleBuffer" =>
        /\ LengthIsRounded
        /\ \A k \in 1..Len(resampled) :
              /\ resampled[k] =
                    IF SpanHi(k) > SpanLo(k)
                    THEN <<Accum(block.buffer, SpanLo(k), SpanHi(k)),
                           SpanHi(k) - SpanLo(k)>>
                    ELSE <<0, 1>>
              /\ block.inputSampleRate >= block.outputSampleRate =>
                    SpanHi(k) > SpanLo(k)

\* four samples resampled by the ratio 3/2 give three means, the first of two
\* samples and the last of the one sample left by the clipping
C20_ThreeHalves ==
    /\ op = "downsampleBuffer"
    /\ block.inputSampleRate = 3
    /\ block.outputSampleRate = 2
    /\ block.buffer = <<1, 3, 3, 1>>
    /\ resampled = <<<<4, 2>>, <<3, 1>>, <<1, 1>>>>

\* C21: with equal rates the result is the input, sample for sample; and a block
\* of equal samples resampled by the ratio 3 (48 kHz to 16 kHz) gives
\* round(len / 3) samples, each equal to the sample of the input.
C21_ReferenceCasesPreserveValues ==
    op = "downsampleBuffer" =>
        /\ block.inputSampleRate = block.outputSampleRate =>
              /\ Len(resampled) = Len(block.buffer)
              /\ \A i \in 1..Len(resampled) : resampled[i] = <<block.buffer[i], 1>>
        /\ ( /\ block.inputSampleRate = 3 * block.outputSampleRate
             /\ \A i \in 1..Len(block.buffer) : block.buffer[i] = block.buffer[1] ) =>
              /\ Len(resampled) = Round(Len(block.buffer), 3)
              /\ \A k \in 1..Len(resampled) :
                    /\ resampled[k][2] > 0
                    /\ resampled[k][1] = block.buffer[1] * resampled[k][2]

\* five equal samples resampled by the ratio 3 give two samples, the mean of
\* three and the mean of the two that are left
C21_ConstantByThree ==
    /\ op = "downsampleBuffer"
    /\ block.inputSampleRate = 3
    /\ block.outputSampleRate = 1
    /\ block.buffer = <<3, 3, 3, 3, 3>>
    /\ resampled = <<<<9, 3>>, <<6, 2>>>>

\* the sockets that are connecting or open with the hook's handlers attached, and
\* the pairs of stream and processor that are live
HandledSockets ==
    (IF ws \in {"connecting", "open"} THEN 1 ELSE 0)
        + stale["connecting"] + stale["open"]
LivePipelines == (IF streamRef \/ processorRef THEN 1 ELSE 0) + orphans

\* C22: at most one socket that is connecting or open has handlers attached,
\* and at most one live pair of microphone stream and capture processor exists.
C22_ResourcesAreSingletons ==
    /\ HandledSockets <= 1
    /\ LivePipelines <= 1

\* C23: when getUserMedia resolves after the call it was started for has been
\* ended and the session is Idle, the session stays Idle and no stream or
\* processor is held.
C23_StoppedCallStaysStopped ==
    [][(op' = "startMicrophone" /\ calls = 0 /\ Idle) =>
          /\ ~isCallActive'
          /\ ~greetingInProgress'
          /\ ~streamRef'
          /\ ~processorRef'
      ]_vars

\* the session_config messages and the sessionId one carries
ConfigMessages == {ConfigJson(id) : id \in SessionIds \ {NoSession}}
SessionIdOf(m) == CHOOSE id \in SessionIds \ {NoSession} : ConfigJson(id) = m

\* C24: a startCall with a sessionId, made with the socket open and the session
\* Idle, sends one message, the session_config that carries that sessionId,
\* and enters the greeting; the acquisition of the call's microphone only begins
\* in that step, so no frame of the call precedes the message.
C24_AcceptedStartCallConfigures ==
    [][(op' = "startCall" /\ Accepts /\ given' # NoSession) =>
          /\ Len(out') = 1
          /\ out'[1] \in ConfigMessages
          /\ SessionIdOf(out'[1]) = given'
          /\ greetingInProgress'
          /\ greetingInProgressRef'
          /\ ~isCallActive'
          /\ micPending' = micPending + 1
          /\ UNCHANGED <<streamRef, processorRef, orphans>>
      ]_vars

\* a call is started with a sessionId while the acquisition of a call that was
\* ended is still pending
C24_SecondCallConfigured ==
    /\ op = "startCall"
    /\ given = "xyz"
    /\ out = <<ConfigJson("xyz")>>
    /\ greetingInProgress
    /\ calls = 1
    /\ micPending = 2

\* C25: in every reachable state the residue is empty or holds exactly one byte.
C25_ResidueIsAtMostOneByte == Len(residueRef) \in {0, 1}

\* a byte kept from before a stop is joined to a chunk of two bytes, and the
\* last byte of the three is kept in turn
C25_ResidueCarriedAcrossStop ==
    /\ op = "audio"
    /\ Len(residueRef) = 1
    /\ Len(decoded) = 2
    /\ Len(pcm) + Len(residueRef) > Len(rx)

\* C26: in both revisions, whenever a microphone stream is held the mute flag is
\* on exactly when the stream's audio track is disabled; and in the state that
\* stopCall leaves no stream is held and the mute flag is off.
C26_MuteFlagAgreesWithTrack ==
    /\ streamRef => (isMuted <=> ~trackEnabled)
    /\ op = "stopCall" => ~streamRef /\ ~isMuted

\* in the muted-start revision audio_end unmutes the stream that was started
\* muted
C26_AutoUnmuted ==
    /\ revision = "mutedStart"
    /\ op = "audio_end"
    /\ "track.enable" \in fx
    /\ streamRef
    /\ trackEnabled
    /\ ~isMuted

\* C27: a timer set by audio_end with a delay, in a call that stopCall has ended
\* since, does not clear the greeting of a call started after that stopCall and
\* does not invoke onAudioEnd during it.
C27_TimerStaysInItsCall ==
    [][( /\ op' = "audio_end_timeout"
         /\ armed[Fired].inCall
         /\ armed[Fired].ended
         /\ timers[Fired] > armed[Fired].at
         /\ calls >= 1 ) =>
          /\ UNCHANGED <<greetingInProgress, greetingInProgressRef>>
          /\ cb' = <<>>
      ]_vars

\* C28: in the push-to-talk revision the socket held by the hook stops being
\* connecting or open only when disconnect() is called or the socket is closed
\* from the other side; starting and stopping a recording leave it as it is.
C28_RecordingKeepsSocket ==
    [][(pttWs \in {"connecting", "open"} /\ pttWs' \notin {"connecting", "open"}) =>
          op' \in {"ptt_disconnect", "ptt_onclose"}
      ]_vars

\* C29: in the push-to-talk revision, once the button is released and no
\* acquisition is pending, no recorder is recording, and no chunk is sent while
\* the button is up.
C29_ReleaseEndsRecording ==
    ~pressed =>
        /\ recPending = 0 => (mediaRecorderRef # "recording" /\ recOrphans = 0)
        /\ ~(op = "ondataavailable" /\ out # <<>>)

\* C30: a message that is not JSON, or whose type no case handles, leaves the
\* socket, the connection flag, the session flags, the mute flag, the thinking
\* and speaking flags, the capture resources, the playback cursor, the residue,
\* the active handle and the timers as they were, sends nothing and invokes no
\* callback; and the socket still dispatches messages after it.
C30_UnhandledMessageIsIgnored ==
    [][op' = "unhandled" =>
          /\ UNCHANGED <<transport, session, bot, capture, playback, now, timers>>
          /\ out' = <<>>
          /\ cb' = <<>>
          /\ Receiving'
      ]_vars

\* the message after an unhandled one is dispatched and takes effect, in a call
\* with the thinking flag set, a byte in the residue and a node tracked
C30_NextMessageDispatched ==
    /\ op = "intro_stop"
    /\ last = "unhandled"
    /\ "setGreetingState" \in fx
    /\ ~greetingInProgress
    /\ isCallActive
    /\ isThinking
    /\ residueRef # NoResidue
    /\ activeSourceRef # NoSource
=============================================================================
